---- MODULE Spec2Model ----
(***************************************************************************)
(* A model of the subtitle-to-audio synchronization engine of sub-lator:   *)
(*   core/whisper_synchronizer.py   WhisperSynchronizer.synchronize        *)
(*   core/subtitle_synchronizer.py  SubtitleSynchronizer.synchronize       *)
(*                                                                         *)
(* Times are exact rationals in seconds, [num |-> n, den |-> d] with d > 0 *)
(* in lowest terms (the Python floats, without their rounding).  A call is *)
(* followed statement group by statement group through pc; the external    *)
(* collaborators (whisperx, ffmpeg, scipy's wav reader, the wall clock)    *)
(* are nondeterministic choices over what they can hand back.              *)
(***************************************************************************)
EXTENDS Integers, Sequences, FiniteSets, TLC

VARIABLES
    pc,                 \* position of the running call ("idle", a step, "except", "done")
    sync,               \* the synchronizer the application built: "whisper" or "signal"
    timeout,            \* WhisperSynchronizer.timeout
    compute_type,       \* WhisperSynchronizer.compute_type
    window_size_ms,     \* SubtitleSynchronizer.window_size_ms
    use_dtw,            \* SubtitleSynchronizer.use_dtw
    max_offset_seconds, \* SubtitleSynchronizer.max_offset_seconds
    audio_exists,       \* os.path.exists(audio_file)
    is_wav,             \* audio_file.lower().endswith('.wav')
    subtitle_intervals, \* argument of synchronize
    subtitle_texts,     \* argument of WhisperSynchronizer.synchronize
    audio_duration,     \* argument, overwritten by the working duration
    elapsed,            \* time.time() - start_time at the last reading
    model,              \* local `model` is bound
    model_a,            \* local `model_a` is bound
    segments,           \* local `segments` submitted to the aligner
    aligned_result,     \* aligned_result["segments"] as (start, end) pairs
    aligned_intervals,  \* local `aligned_intervals`
    valid_intervals,    \* local `valid_intervals`, << >> while unbound
    scale_factor,       \* local `scale_factor`, None while unbound
    audio_signal,       \* local `audio_signal` of SubtitleSynchronizer.synchronize
    subtitle_signal,    \* local `subtitle_signal`
    offset,             \* local `offset`
    dtw_path,           \* local `dtw_path`: [bound |-> FALSE] is None
    audio_loads,        \* number of whisperx.load_audio / extract_audio_features calls
    model_loads,        \* number of whisperx.load_model calls
    cleanups,           \* number of _cleanup_gpu calls
    overrun,            \* steps at whose completion elapsed > timeout
    raised_in,          \* step that raised an exception, "none" while none did
    temp_files,         \* temporary WAV files on disk
    temp_made,          \* temporary WAV files created by this call
    ret_line,           \* source line of the return statement taken, 0 before
    outcome,            \* "none", "returned" or "raised" (exception escapes to the caller)
    result,             \* value returned to the caller, << >> before
    seconds,            \* argument of SrtGenerationView._format_timestamp_srt
    formatted           \* the timestamp text it returned, "" before

\* the configuration of the two synchronizers
config == << timeout, compute_type, window_size_ms, use_dtw, max_offset_seconds >>

\* the arguments of a call
args == << audio_exists, is_wav, subtitle_intervals, subtitle_texts, audio_duration >>

\* the locals of WhisperSynchronizer.synchronize
wlocals == << elapsed, model, model_a, segments, aligned_result, aligned_intervals,
              valid_intervals, scale_factor, model_loads, cleanups, overrun >>

\* the locals of SubtitleSynchronizer.synchronize and the files it leaves
slocals == << audio_signal, subtitle_signal, offset, dtw_path, temp_files, temp_made >>

\* how the call ended
ending == << ret_line, outcome, result >>

\* the argument and the value of the timestamp formatter
view == << seconds, formatted >>

vars == << pc, sync, config, args, wlocals, slocals, audio_loads, raised_in, ending,
          view >>

----------------------------------------------------------------------------
(* Bounds of the model *)

MaxSegs == 2        \* longest subtitle list and longest aligner output drawn
MaxTimeout == 1     \* timeouts 1..MaxTimeout, in clock units
MaxWindows == 3     \* longest voice-activity signal drawn

----------------------------------------------------------------------------
(* Exact rational arithmetic for the float computations *)

RECURSIVE GCD(_, _)
GCD(a, b) == IF b = 0 THEN a ELSE GCD(b, a % b)

Abs(x) == IF x < 0 THEN -x ELSE x

Rat(n, d) ==
    LET s == IF d < 0 THEN -1 ELSE 1
        g == GCD(Abs(n), Abs(d))
    IN  [num |-> (s * n) \div g, den |-> (s * d) \div g]

R(i) == [num |-> i, den |-> 1]

Lt(a, b) == a.num * b.den < b.num * a.den
Le(a, b) == a.num * b.den <= b.num * a.den
Add(a, b) == Rat(a.num * b.den + b.num * a.den, a.den * b.den)
Sub(a, b) == Rat(a.num * b.den - b.num * a.den, a.den * b.den)
Mul(a, b) == Rat(a.num * b.num, a.den * b.den)
Div(a, b) == Rat(a.num * b.den, a.den * b.num)

\* Python's max(a, b) / min(a, b): the first argument wins a tie.
PyMax(a, b) == IF Lt(a, b) THEN b ELSE a
PyMin(a, b) == IF Lt(b, a) THEN b ELSE a

\* Python's None where a float is optional: the one value with den = 0
None == [num |-> 0, den |-> 0]

\* Python truthiness of an Optional[float]
Truthy(x) == x # None /\ x.num # 0

RECURSIVE MaxEnd(_)
MaxEnd(ivs) ==
    IF Len(ivs) = 1 THEN ivs[1][2]
    ELSE LET m == MaxEnd(Tail(ivs)) IN IF Lt(ivs[1][2], m) THEN m ELSE ivs[1][2]

----------------------------------------------------------------------------
(* What the callers and the external collaborators can supply *)

\* SubtitleInterval values handed in by the caller: slot k is (2k-2, 2k) seconds
IntervalValue(k) == << R(2 * (k - 1)), R(2 * k) >>

\* the slots of a set, in increasing order
RECURSIVE SortedSlots(_)
SortedSlots(S) ==
    IF S = {} THEN << >>
    ELSE LET m == CHOOSE x \in S : \A y \in S : x <= y
         IN  << IntervalValue(m) >> \o SortedSlots(S \ {m})

\* the subtitle lists a caller passes: in time order, not overlapping
IntervalLists == { SortedSlots(S) : S \in SUBSET (1..MaxSegs) }

\* SubtitleText values: "", " " and "a", as character sequences
TextValues == { << >>, << " " >>, << "a" >> }

SeqsUpTo(S, n) == UNION { [1..k -> S] : k \in 0..n }

\* the audio_duration argument
ProvidedDurations == { None, R(50), R(58) }

\* len(audio) / 16000 of the file whisperx.load_audio decodes
ActualDurations == { R(0), R(50), R(60), R(7200) }

\* (start, end) pairs the external aligner can report for a segment
AlignIntervals ==
    { <<R(-1), R(3)>>,           \* negative start
      <<R(3), R(3)>>,            \* zero length
      <<Rat(999, 20), R(50)>>,   \* 49.95 .. 50
      <<R(52), R(54)>>,          \* past a 50 s audio, within 1.1 x
      <<R(100), R(650)>>,        \* wrong scale
      <<R(7000), R(7200)>> }     \* two hours, past the one-hour ceiling

\* ten segments of growing length, the last ending at 7200 s
ScenarioThree == [i \in 1..10 |-> <<R(72 * (i - 1) * (i - 1)), R(72 * i * i)>>]

\* what the aligner hands back: up to MaxSegs segments in time order (the tiers
\* treat every interval by itself, whatever its place), or the ten of ScenarioThree
AlignerOutputs ==
    { v \in SeqsUpTo(AlignIntervals, MaxSegs) :
        \A i \in 1..(Len(v) - 1) : Le(v[i][1], v[i + 1][1]) }
    \cup { ScenarioThree }

\* the audio_duration argument of SubtitleSynchronizer.synchronize
SignalDurations == { None, R(2), R(4) }

\* the duration ffprobe prints
FfprobeDurations == { R(3) }

\* the voice-activity signals extract_audio_features can hand back: one 0/1 per
\* window, at least one window (np.max of no window raises)
VadSignals == UNION { [1..k -> {0, 1}] : k \in 1..MaxWindows }

\* str.strip(): leading and trailing whitespace removed
RECURSIVE LStrip(_)
LStrip(t) == IF t # << >> /\ Head(t) = " " THEN LStrip(Tail(t)) ELSE t

RECURSIVE RStrip(_)
RStrip(t) ==
    IF t # << >> /\ t[Len(t)] = " " THEN RStrip(SubSeq(t, 1, Len(t) - 1)) ELSE t

Strip(t) == RStrip(LStrip(t))

----------------------------------------------------------------------------
(* WhisperSynchronizer *)

\* time.time() - start_time after dt more clock units; only the comparison with
\* the timeout is ever read, so the reading is capped just above every timeout
Tick(e, dt) == IF e + dt > MaxTimeout + 1 THEN MaxTimeout + 1 ELSE e + dt

\* the clock units a step can take
Ticks == 0..(MaxTimeout + 1)

TimedOut(e) == e > timeout

\* a return statement
Return(line, value) ==
    /\ pc' = "done"
    /\ ret_line' = line
    /\ outcome' = "returned"
    /\ result' = value

\* a raise inside the try block of synchronize: control goes to the handler
Raise(step) ==
    /\ pc' = "except"
    /\ raised_in' = step
    /\ UNCHANGED ending

Idle ==
    /\ pc = "idle"
    /\ sync = "whisper"

\* the working duration chosen at lines 79-84
WorkingDuration(provided, actual) ==
    IF Truthy(provided) /\ Lt(R(5), IF Lt(Sub(provided, actual), R(0))
                                     THEN Sub(actual, provided)
                                     ELSE Sub(provided, actual))
    THEN actual
    ELSE IF ~Truthy(provided) THEN actual ELSE provided

\* lines 112-121: one segment per interval whose text does not strip to ""
RECURSIVE BuildSegments(_, _, _)
BuildSegments(intervals, texts, i) ==
    IF i > Len(intervals) \/ i > Len(texts) THEN << >>
    ELSE LET rest == BuildSegments(intervals, texts, i + 1)
         IN  IF Strip(texts[i]) # << >>
             THEN << [id |-> i - 1, start |-> intervals[i][1],
                      end |-> intervals[i][2], text |-> texts[i]] >> \o rest
             ELSE rest

\* lines 55-68: entry of synchronize
WSynchronize ==
    /\ Idle
    /\ \E exists \in BOOLEAN, ivs \in IntervalLists,
          txts \in SeqsUpTo(TextValues, MaxSegs), dur \in ProvidedDurations :
         /\ audio_exists' = exists
         /\ subtitle_intervals' = ivs
         /\ subtitle_texts' = txts
         /\ audio_duration' = dur
         /\ elapsed' = 0
         /\ IF ~exists THEN Return(60, ivs)
            ELSE IF Len(ivs) # Len(txts) THEN Return(64, ivs)
            ELSE IF ivs = << >> THEN Return(68, << >>)
            ELSE /\ pc' = "load_audio"
                 /\ UNCHANGED ending
    /\ UNCHANGED << sync, view, config, is_wav, model, model_a, segments, aligned_result,
                    aligned_intervals, valid_intervals, scale_factor, model_loads,
                    cleanups, overrun, slocals, audio_loads, raised_in >>

\* lines 71-89: whisperx.load_audio, the working duration, the first checkpoint
WLoadAudio ==
    /\ pc = "load_audio"
    /\ sync = "whisper"
    /\ audio_loads' = audio_loads + 1
    /\ \/ /\ Raise("load_audio")
          /\ UNCHANGED << audio_duration, elapsed, overrun >>
       \/ \E actual \in ActualDurations, dt \in Ticks :
            /\ audio_duration' = WorkingDuration(audio_duration, actual)
            /\ elapsed' = Tick(elapsed, dt)
            /\ UNCHANGED raised_in
            /\ IF TimedOut(elapsed')
               THEN /\ overrun' = overrun \cup {"load_audio"}
                    /\ Return(89, subtitle_intervals)
               ELSE /\ pc' = "load_model"
                    /\ UNCHANGED << overrun, ending >>
    /\ UNCHANGED << sync, view, config, audio_exists, is_wav, subtitle_intervals,
                    subtitle_texts, model, model_a, segments, aligned_result,
                    aligned_intervals, valid_intervals, scale_factor, model_loads,
                    cleanups, slocals >>

\* lines 224-232: _cleanup_gpu is entered (it swallows its own exceptions)
CleanupGpu == cleanups' = cleanups + 1

\* what whisperx.load_model can do: hand back a model, raise a RuntimeError that
\* names float16, or raise anything else
LoadModelOutcomes == { "model", "float16_error", "other_error" }

\* lines 105-110, 126-131, 137-143: a checkpoint after a model was loaded; on a
\* timeout the models are deleted (the action unbinds them), the GPU cleaned
CheckpointAfterModel(line, step, next) ==
    IF TimedOut(elapsed')
    THEN /\ overrun' = overrun \cup {step}
         /\ CleanupGpu
         /\ Return(line, subtitle_intervals)
    ELSE /\ pc' = next
         /\ UNCHANGED << overrun, cleanups, ending >>

\* lines 91-110: whisperx.load_model with the float32 retry, second checkpoint
WLoadModel ==
    /\ pc = "load_model"
    /\ sync = "whisper"
    /\ \E first \in LoadModelOutcomes, second \in LoadModelOutcomes, dt \in Ticks :
         LET retry == first = "float16_error" /\ compute_type = "float16"
             loaded == first = "model" \/ (retry /\ second = "model")
         IN  /\ second # "model" => retry
             /\ model_loads' = model_loads + (IF retry THEN 2 ELSE 1)
             /\ compute_type' = IF retry THEN "float32" ELSE compute_type
             /\ IF loaded
                THEN /\ elapsed' = Tick(elapsed, dt)
                     /\ CheckpointAfterModel(110, "load_model", "prepare")
                     /\ model' = ~TimedOut(elapsed')
                     /\ UNCHANGED raised_in
                ELSE /\ dt = 0
                     /\ Raise("load_model")
                     /\ UNCHANGED << elapsed, overrun, cleanups, model >>
    /\ UNCHANGED << sync, view, timeout, window_size_ms, use_dtw, max_offset_seconds, args,
                    model_a, segments, aligned_result, aligned_intervals,
                    valid_intervals, scale_factor, slocals, audio_loads >>

\* lines 112-131: the segments, third checkpoint
WPrepareSegments ==
    /\ pc = "prepare"
    /\ sync = "whisper"
    /\ segments' = BuildSegments(subtitle_intervals, subtitle_texts, 1)
    /\ \E dt \in Ticks :
         /\ elapsed' = Tick(elapsed, dt)
         /\ CheckpointAfterModel(131, "prepare", "load_align_model")
         /\ model' = ~TimedOut(elapsed')
    /\ UNCHANGED << sync, view, config, args, model_a, aligned_result, aligned_intervals,
                    valid_intervals, scale_factor, model_loads, slocals, audio_loads,
                    raised_in >>

\* lines 133-143: whisperx.load_align_model, fourth checkpoint
WLoadAlignModel ==
    /\ pc = "load_align_model"
    /\ sync = "whisper"
    /\ \/ /\ Raise("load_align_model")
          /\ UNCHANGED << elapsed, overrun, cleanups, model, model_a >>
       \/ \E dt \in Ticks :
            /\ elapsed' = Tick(elapsed, dt)
            /\ CheckpointAfterModel(143, "load_align_model", "align")
            /\ model' = ~TimedOut(elapsed')
            /\ model_a' = ~TimedOut(elapsed')
            /\ UNCHANGED raised_in
    /\ UNCHANGED << sync, view, config, args, segments, aligned_result, aligned_intervals,
                    valid_intervals, scale_factor, model_loads, slocals, audio_loads >>

\* lines 145-155: whisperx.align and the extraction of its (start, end) pairs;
\* a raise is the aligner's own or that of a segment without "start"/"end".
\* No checkpoint follows the call.
WAlign ==
    /\ pc = "align"
    /\ sync = "whisper"
    /\ \/ /\ Raise("align")
          /\ UNCHANGED << elapsed, overrun, aligned_result, aligned_intervals >>
       \/ \E out \in AlignerOutputs, dt \in Ticks :
            /\ elapsed' = Tick(elapsed, dt)
            /\ overrun' = IF TimedOut(elapsed') THEN overrun \cup {"align"} ELSE overrun
            /\ aligned_result' = out
            /\ aligned_intervals' = out
            /\ pc' = "rescale"
            /\ UNCHANGED << raised_in, ending >>
    /\ UNCHANGED << sync, view, config, args, model, model_a, segments, valid_intervals,
                    scale_factor, model_loads, cleanups, slocals, audio_loads >>

\* line 164: last_end > audio_duration * 1.1
ExceedsDuration(last_end, duration) == Lt(Mul(duration, Rat(11, 10)), last_end)

\* ScaleIntervals with only the end-times scaled
ScaleIntervals_EndsOnly(ivs, factor) ==
    [i \in 1..Len(ivs) |-> << ivs[i][1], Mul(ivs[i][2], factor) >>]

\* lines 174-175: every start and end times the scaling factor
ScaleIntervals(ivs, factor) ==
    [i \in 1..Len(ivs) |-> << Mul(ivs[i][1], factor), Mul(ivs[i][2], factor) >>]

\* ClampInterval with the extended end not clamped to the duration again
ClampInterval_NoReclamp(iv, duration) ==
    LET start == PyMax(R(0), iv[1])
        end == PyMin(iv[2], duration)
    IN  IF Lt(Sub(end, start), Rat(1, 10))
        THEN << start, Add(start, Rat(1, 10)) >>
        ELSE << start, end >>

\* lines 181-188: one interval through the second verification
ClampInterval(iv, duration) ==
    LET start == PyMax(R(0), iv[1])
        end == PyMin(iv[2], duration)
    IN  IF Lt(Sub(end, start), Rat(1, 10))
        THEN << start, PyMin(Add(start, Rat(1, 10)), duration) >>
        ELSE << start, end >>

\* line 195
max_reasonable_time == R(60 * 60)

\* line 196: any(end > max_reasonable_time for _, end in aligned_intervals)
Unreasonable(ivs) == \E i \in 1..Len(ivs) : Lt(max_reasonable_time, ivs[i][2])

\* Redistribute with segment k starting where it should end
Redistribute_OffByOne(total_segments, duration) ==
    LET segment_duration == Div(duration, R(total_segments))
    IN  [k \in 1..total_segments |->
            << Mul(R(k), segment_duration),
               PyMin(Mul(R(k + 1), segment_duration), duration) >>]

\* lines 203-207: total_segments segments spread evenly over the duration
Redistribute(total_segments, duration) ==
    LET segment_duration == Div(duration, R(total_segments))
    IN  [k \in 1..total_segments |->
            << Mul(R(k - 1), segment_duration),
               PyMin(Mul(R(k), segment_duration), duration) >>]

\* the part of the frame the three tiers leave alone
TierFrame ==
    UNCHANGED << sync, view, config, args, elapsed, model, model_a, segments, aligned_result,
                 model_loads, cleanups, overrun, slocals, audio_loads, raised_in,
                 ending >>

\* lines 157-175: tier 1, the rescale to the audio duration
WRescale ==
    /\ pc = "rescale"
    /\ sync = "whisper"
    /\ IF aligned_intervals # << >> /\ Truthy(audio_duration)
          /\ ExceedsDuration(MaxEnd(aligned_intervals), audio_duration)
       THEN /\ scale_factor' = Div(audio_duration, MaxEnd(aligned_intervals))
            /\ aligned_intervals' = ScaleIntervals(aligned_intervals, scale_factor')
       ELSE UNCHANGED << scale_factor, aligned_intervals >>
    /\ pc' = "clamp"
    /\ UNCHANGED valid_intervals
    /\ TierFrame

\* lines 177-191: tier 2, bounds and minimum length of every interval
WClamp ==
    /\ pc = "clamp"
    /\ sync = "whisper"
    /\ IF aligned_intervals # << >> /\ Truthy(audio_duration)
       THEN /\ valid_intervals' = [i \in 1..Len(aligned_intervals) |->
                                      ClampInterval(aligned_intervals[i], audio_duration)]
            /\ aligned_intervals' = valid_intervals'
       ELSE UNCHANGED << valid_intervals, aligned_intervals >>
    /\ pc' = "emergency"
    /\ UNCHANGED scale_factor
    /\ TierFrame

\* WEmergency testing the aligner's own end-times instead of the clamped ones
WEmergency_TestsAlignerOutput ==
    /\ pc = "emergency"
    /\ sync = "whisper"
    /\ IF aligned_intervals # << >> /\ Unreasonable(aligned_result)
          /\ Len(aligned_intervals) > 0 /\ Truthy(audio_duration)
       THEN aligned_intervals' = Redistribute(Len(aligned_intervals), audio_duration)
       ELSE UNCHANGED aligned_intervals
    /\ pc' = "finish"
    /\ UNCHANGED << valid_intervals, scale_factor >>
    /\ TierFrame

\* lines 193-208: tier 3, the forced linear distribution
WEmergency ==
    /\ pc = "emergency"
    /\ sync = "whisper"
    /\ IF aligned_intervals # << >> /\ Unreasonable(aligned_intervals)
          /\ Len(aligned_intervals) > 0 /\ Truthy(audio_duration)
       THEN aligned_intervals' = Redistribute(Len(aligned_intervals), audio_duration)
       ELSE UNCHANGED aligned_intervals
    /\ pc' = "finish"
    /\ UNCHANGED << valid_intervals, scale_factor >>
    /\ TierFrame

\* lines 210-215: the models deleted, the GPU cleaned, the aligned intervals returned
WFinish ==
    /\ pc = "finish"
    /\ sync = "whisper"
    /\ model' = FALSE
    /\ model_a' = FALSE
    /\ CleanupGpu
    /\ Return(215, aligned_intervals)
    /\ UNCHANGED << sync, view, config, args, elapsed, segments, aligned_result,
                    aligned_intervals, valid_intervals, scale_factor, model_loads,
                    overrun, slocals, audio_loads, raised_in >>

\* WExcept without the call of _cleanup_gpu
WExcept_NoCleanup ==
    /\ pc = "except"
    /\ sync = "whisper"
    /\ model' = FALSE
    /\ model_a' = FALSE
    /\ Return(222, subtitle_intervals)
    /\ UNCHANGED << sync, view, config, args, elapsed, segments, aligned_result,
                    aligned_intervals, valid_intervals, scale_factor, model_loads,
                    cleanups, overrun, slocals, audio_loads, raised_in >>

\* WExcept raising the exception again after the cleanup
WExcept_Reraise ==
    /\ pc = "except"
    /\ sync = "whisper"
    /\ CleanupGpu
    /\ model' = FALSE
    /\ model_a' = FALSE
    /\ pc' = "done"
    /\ outcome' = "raised"
    /\ UNCHANGED << ret_line, result >>
    /\ UNCHANGED << sync, view, config, args, elapsed, segments, aligned_result,
                    aligned_intervals, valid_intervals, scale_factor, model_loads,
                    overrun, slocals, audio_loads, raised_in >>

\* lines 217-222: the handler of every exception of the try block
WExcept ==
    /\ pc = "except"
    /\ sync = "whisper"
    /\ CleanupGpu
    /\ model' = FALSE
    /\ model_a' = FALSE
    /\ Return(222, subtitle_intervals)
    /\ UNCHANGED << sync, view, config, args, elapsed, segments, aligned_result,
                    aligned_intervals, valid_intervals, scale_factor, model_loads,
                    overrun, slocals, audio_loads, raised_in >>

----------------------------------------------------------------------------
(* SubtitleSynchronizer: the numeric routines *)

\* Python's int(): truncation toward zero
Trunc(r) == IF r.num >= 0 THEN r.num \div r.den ELSE -((-r.num) \div r.den)

IntMax(a, b) == IF a < b THEN b ELSE a
IntMin(a, b) == IF b < a THEN b ELSE a

\* int(t * 1000 / self.window_size_ms)
WindowIndex(t, window) == Trunc(Div(Mul(t, R(1000)), R(window)))

\* lines 72-92: create_subtitle_signal; element k of the result is window k - 1
create_subtitle_signal(intervals, duration, window) ==
    LET n_windows == WindowIndex(duration, window)
        start_idx(iv) == IntMax(0, IntMin(WindowIndex(iv[1], window), n_windows - 1))
        end_idx(iv) == IntMax(0, IntMin(WindowIndex(iv[2], window), n_windows))
    IN  [k \in 1..n_windows |->
            IF \E i \in 1..Len(intervals) :
                 start_idx(intervals[i]) <= k - 1 /\ k - 1 < end_idx(intervals[i])
            THEN 1 ELSE 0]

\* np.pad(x, (0, n - len(x)), 'constant')
PadRight(x, n) == [k \in 1..n |-> IF k <= Len(x) THEN x[k] ELSE 0]

\* the correlation with the two signals taken the other way round
RECURSIVE CorrelateAt_Swapped(_, _, _, _)
CorrelateAt_Swapped(a, b, k, i) ==
    IF i > Len(a) THEN 0
    ELSE LET l == i + k - (Len(a) - 1)
         IN  (IF l >= 1 /\ l <= Len(b) THEN b[l] * a[i] ELSE 0)
             + CorrelateAt_Swapped(a, b, k, i + 1)

\* element k (from 0) of signal.correlate(a, b, mode='full') for len(a) = len(b) = n:
\* the sum of a[i + lag] * b[i] at lag = k - (n - 1)
RECURSIVE CorrelateAt(_, _, _, _)
CorrelateAt(a, b, k, i) ==
    IF i > Len(b) THEN 0
    ELSE LET l == i + k - (Len(b) - 1)
         IN  (IF l >= 1 /\ l <= Len(a) THEN a[l] * b[i] ELSE 0)
             + CorrelateAt(a, b, k, i + 1)

\* an argmax that returns the last index of the largest element
ArgMax_LastOccurrence(f, last) ==
    CHOOSE k \in 0..last :
        /\ \A j \in 0..last : f[j] <= f[k]
        /\ \A j \in (k + 1)..last : f[j] < f[k]

\* np.argmax: the first index of the largest element
ArgMax(f, last) ==
    CHOOSE k \in 0..last :
        /\ \A j \in 0..last : f[j] <= f[k]
        /\ \A j \in 0..(k - 1) : f[j] < f[k]

RatAbs(r) == IF r.num < 0 THEN [num |-> -r.num, den |-> r.den] ELSE r

\* find_global_offset without the limit of lines 121-123
find_global_offset_Unlimited(audio, subtitles, window, max_offset) ==
    IF Len(audio) = 0 \/ Len(subtitles) = 0 THEN R(0)
    ELSE LET max_len == IntMax(Len(audio), Len(subtitles))
             a == PadRight(audio, max_len)
             b == PadRight(subtitles, max_len)
             correlation == [k \in 0..(2 * max_len - 2) |-> CorrelateAt(a, b, k, 1)]
             max_idx == ArgMax(correlation, 2 * max_len - 2)
         IN  Rat((max_idx - Len(b) + 1) * window, 1000)

\* lines 94-125: find_global_offset
find_global_offset(audio, subtitles, window, max_offset) ==
    IF Len(audio) = 0 \/ Len(subtitles) = 0 THEN R(0)
    ELSE LET max_len == IntMax(Len(audio), Len(subtitles))
             a == PadRight(audio, max_len)
             b == PadRight(subtitles, max_len)
             correlation == [k \in 0..(2 * max_len - 2) |-> CorrelateAt(a, b, k, 1)]
             max_idx == ArgMax(correlation, 2 * max_len - 2)
             offset_windows == max_idx - Len(b) + 1
             offset_seconds == Rat(offset_windows * window, 1000)
         IN  IF Lt(max_offset, RatAbs(offset_seconds)) THEN R(0) ELSE offset_seconds

\* np.inf of the cost matrix: above every finite cost of the signals drawn
Infinity == 1000000

\* lines 140-145: row i of the cost matrix from row i - 1, cell by cell;
\* a row is the sequence of its cells 0..m
RECURSIVE FillRow(_, _, _, _, _)
FillRow(audio, subtitles, previous, i, row) ==
    LET j == Len(row)
    IN  IF j > Len(subtitles) THEN row
        ELSE LET match_cost == IF audio[i] = subtitles[j] THEN 0 ELSE 1
                 least == IntMin(previous[j + 1], IntMin(row[j], previous[j]))
             IN  FillRow(audio, subtitles, previous, i, Append(row, match_cost + least))

\* lines 134-145: the cost matrix, rows 0..n
RECURSIVE CostRows(_, _, _)
CostRows(audio, subtitles, rows) ==
    IF Len(rows) > Len(audio) THEN rows
    ELSE CostRows(audio, subtitles,
                  Append(rows, FillRow(audio, subtitles, rows[Len(rows)],
                                       Len(rows), << Infinity >>)))

CostMatrix(audio, subtitles) ==
    CostRows(audio, subtitles,
             << [j \in 1..(Len(subtitles) + 1) |-> IF j = 1 THEN 0 ELSE Infinity] >>)

\* Backtrack stepping to the row above whenever there is one, whatever the costs
RECURSIVE Backtrack_UpFirst(_, _, _, _)
Backtrack_UpFirst(cost, i, j, path) ==
    IF i > 0 /\ j > 0
    THEN LET here == << << i - 1, j - 1 >> >> \o path
         IN  IF i > 1 THEN Backtrack_UpFirst(cost, i - 1, j, here)
             ELSE IF j > 1 THEN Backtrack_UpFirst(cost, i, j - 1, here)
             ELSE Backtrack_UpFirst(cost, i - 1, j - 1, here)
    ELSE path

\* Backtrack stepping diagonally every time
RECURSIVE Backtrack_DiagonalOnly(_, _, _, _)
Backtrack_DiagonalOnly(cost, i, j, path) ==
    IF i > 0 /\ j > 0
    THEN Backtrack_DiagonalOnly(cost, i - 1, j - 1, << << i - 1, j - 1 >> >> \o path)
    ELSE path

\* lines 147-161: the backtrack from (i, j); `path` is already in increasing order
RECURSIVE Backtrack(_, _, _, _)
Backtrack(cost, i, j, path) ==
    IF i > 0 /\ j > 0
    THEN LET up == cost[i][j + 1]
             left == cost[i + 1][j]
             diagonal == cost[i][j]
             min_cost == IntMin(up, IntMin(left, diagonal))
             here == << << i - 1, j - 1 >> >> \o path
         IN  IF min_cost = diagonal THEN Backtrack(cost, i - 1, j - 1, here)
             ELSE IF min_cost = up THEN Backtrack(cost, i - 1, j, here)
             ELSE Backtrack(cost, i, j - 1, here)
    ELSE path

\* apply_dynamic_time_warping without the path.reverse() of line 161
apply_dynamic_time_warping_Unreversed(audio, subtitles) ==
    LET path == Backtrack(CostMatrix(audio, subtitles), Len(audio), Len(subtitles), << >>)
    IN  [k \in 1..Len(path) |-> path[Len(path) + 1 - k]]

\* lines 127-162: apply_dynamic_time_warping
apply_dynamic_time_warping(audio, subtitles) ==
    Backtrack(CostMatrix(audio, subtitles), Len(audio), Len(subtitles), << >>)

\* lines 182-186: the keys of subtitle_to_audio in insertion order (the subtitle
\* window of every path point, a repeated one kept where it first came)
RECURSIVE PathKeys(_, _)
PathKeys(path, keys) ==
    IF path = << >> THEN keys
    ELSE PathKeys(Tail(path),
                  IF \E k \in 1..Len(keys) : keys[k] = Head(path)[2]
                  THEN keys ELSE Append(keys, Head(path)[2]))

\* subtitle_to_audio[sub_idx * window_time]: the last path point of that window
RECURSIVE PathValue(_, _)
PathValue(path, sub_idx) ==
    IF path[Len(path)][2] = sub_idx THEN path[Len(path)][1]
    ELSE PathValue(SubSeq(path, 1, Len(path) - 1), sub_idx)

\* lines 192-193: min(keys, key=lambda x: abs(x - t)), the first of the nearest keys
ClosestKey(keys, t, window) ==
    LET dist(k) == RatAbs(Sub(Rat(keys[k] * window, 1000), t))
        best == CHOOSE k \in 1..Len(keys) :
                    /\ \A j \in 1..Len(keys) : Le(dist(k), dist(j))
                    /\ \A j \in 1..(k - 1) : Lt(dist(k), dist(j))
    IN  keys[best]

\* MappedTime whose default for a boundary without a path point forgets the offset
MappedTime_DefaultUnshifted(path, t, off, window) ==
    IF path = << >> THEN t
    ELSE Rat(PathValue(path, ClosestKey(PathKeys(path, << >>), t, window)) * window, 1000)

\* lines 192-197: the audio time a boundary is mapped to
MappedTime(path, t, off, window) ==
    IF path = << >> THEN Add(t, off)
    ELSE Rat(PathValue(path, ClosestKey(PathKeys(path, << >>), t, window)) * window, 1000)

\* AdjustWithPath adding the offset to the start the path gives
AdjustWithPath_ShiftedStart(iv, off, path, duration, window) ==
    LET adjusted_start == PyMax(R(0), Add(MappedTime(path, iv[1], off, window), off))
        mapped_end == MappedTime(path, iv[2], off, window)
        adjusted_end == IF duration # None THEN PyMin(duration, mapped_end)
                        ELSE mapped_end
    IN  IF Lt(Sub(adjusted_end, adjusted_start), Rat(1, 10))
        THEN << adjusted_start, Add(adjusted_start, Rat(1, 10)) >>
        ELSE << adjusted_start, adjusted_end >>

\* lines 190-208: one interval in DTW mode
AdjustWithPath(iv, off, path, duration, window) ==
    LET adjusted_start == PyMax(R(0), MappedTime(path, iv[1], off, window))
        mapped_end == MappedTime(path, iv[2], off, window)
        adjusted_end == IF duration # None THEN PyMin(duration, mapped_end)
                        ELSE mapped_end
    IN  IF Lt(Sub(adjusted_end, adjusted_start), Rat(1, 10))
        THEN << adjusted_start, Add(adjusted_start, Rat(1, 10)) >>
        ELSE << adjusted_start, adjusted_end >>

\* AdjustWithOffset without the clamp of the start at 0
AdjustWithOffset_Unclamped(iv, off, duration) ==
    << Add(iv[1], off),
       IF duration = None THEN Add(iv[2], off) ELSE PyMin(duration, Add(iv[2], off)) >>

\* lines 170-175: one interval in offset-only mode
AdjustWithOffset(iv, off, duration) ==
    << PyMax(R(0), Add(iv[1], off)),
       IF duration = None THEN Add(iv[2], off) ELSE PyMin(duration, Add(iv[2], off)) >>

\* adjust_timings handing the adjusted intervals back last first
adjust_timings_Reversed(intervals, off, path, duration, dtw, window) ==
    [i \in 1..Len(intervals) |->
        IF ~path.bound \/ ~dtw
        THEN AdjustWithOffset(intervals[Len(intervals) + 1 - i], off, duration)
        ELSE AdjustWithPath(intervals[Len(intervals) + 1 - i], off, path.points,
                            duration, window)]

\* lines 164-210: adjust_timings; path is [bound |-> FALSE, ...] for None
adjust_timings(intervals, off, path, duration, dtw, window) ==
    IF ~path.bound \/ ~dtw
    THEN [i \in 1..Len(intervals) |-> AdjustWithOffset(intervals[i], off, duration)]
    ELSE [i \in 1..Len(intervals) |->
            AdjustWithPath(intervals[i], off, path.points, duration, window)]

\* lines 253-259: the subtitle signal shifted by the global offset
ShiftSignal(signal, offset_windows) ==
    IF offset_windows > 0
    THEN LET padded == [k \in 1..(Len(signal) + offset_windows) |->
                           IF k <= offset_windows THEN 0 ELSE signal[k - offset_windows]]
         IN  IF offset_windows < Len(signal)
             THEN SubSeq(padded, 1, Len(padded) - offset_windows)
             ELSE padded
    ELSE IF offset_windows < 0
    THEN SubSeq(PadRight(signal, Len(signal) - offset_windows),
                1 - offset_windows, Len(signal) - offset_windows)
    ELSE signal

\* lines 253-267: the path of the shifted subtitle signal against the audio signal
DtwOfSynchronize(audio, subtitles, off, window) ==
    LET adjusted == ShiftSignal(subtitles, WindowIndex(off, window))
        min_len == IntMin(Len(audio), Len(adjusted))
    IN  apply_dynamic_time_warping(SubSeq(audio, 1, min_len), SubSeq(adjusted, 1, min_len))

----------------------------------------------------------------------------
(* SubtitleSynchronizer.synchronize *)

\* the part of the state a SubtitleSynchronizer call never touches
SFrame ==
    UNCHANGED << sync, view, config, wlocals, audio_exists, subtitle_texts >>

\* lines 212-226: synchronize is entered; its first statement is the extraction
SSynchronize ==
    /\ pc = "idle"
    /\ sync = "signal"
    /\ \E wav \in BOOLEAN, ivs \in IntervalLists, dur \in SignalDurations :
         /\ is_wav' = wav
         /\ subtitle_intervals' = ivs
         /\ audio_duration' = dur
    /\ pc' = "make_temp"
    /\ UNCHANGED << slocals, audio_loads, raised_in, ending >>
    /\ SFrame

\* lines 28-41: extract_audio_features is entered; a file that is not a .wav gets
\* a temporary file (delete=False) and the transcoder run, which raises on failure
SMakeTemp ==
    /\ pc = "make_temp"
    /\ sync = "signal"
    /\ audio_loads' = audio_loads + 1
    /\ IF is_wav
       THEN /\ pc' = "read_wav"
            /\ UNCHANGED << temp_files, temp_made, raised_in >>
       ELSE /\ temp_files' = temp_files \cup { Cardinality(temp_made) + 1 }
            /\ temp_made' = temp_made \cup { Cardinality(temp_made) + 1 }
            /\ \/ /\ pc' = "read_wav"
                  /\ UNCHANGED raised_in
               \/ /\ pc' = "except"
                  /\ raised_in' = "ffmpeg"
    /\ UNCHANGED << is_wav, subtitle_intervals, audio_duration, audio_signal,
                    subtitle_signal, offset, dtw_path, ending >>
    /\ SFrame

\* line 44: wavfile.read
SReadWav ==
    /\ pc = "read_wav"
    /\ sync = "signal"
    /\ \/ /\ pc' = "energy"
          /\ UNCHANGED raised_in
       \/ /\ pc' = "except"
          /\ raised_in' = "read_wav"
    /\ UNCHANGED << is_wav, subtitle_intervals, audio_duration, slocals, audio_loads,
                    ending >>
    /\ SFrame

\* lines 46-64: normalization, window energies, threshold
SEnergy ==
    /\ pc = "energy"
    /\ sync = "signal"
    /\ \/ /\ \E vad \in VadSignals : audio_signal' = vad
          /\ pc' = "unlink"
          /\ UNCHANGED raised_in
       \/ /\ pc' = "except"
          /\ raised_in' = "energy"
          /\ UNCHANGED audio_signal
    /\ UNCHANGED << is_wav, subtitle_intervals, audio_duration, subtitle_signal, offset,
                    dtw_path, temp_files, temp_made, audio_loads, ending >>
    /\ SFrame

\* lines 66-70: the temporary file unlinked, the signal handed back
SUnlink ==
    /\ pc = "unlink"
    /\ sync = "signal"
    /\ temp_files' = IF ~is_wav THEN temp_files \ temp_made ELSE temp_files
    /\ pc' = "duration"
    /\ UNCHANGED << is_wav, subtitle_intervals, audio_duration, audio_signal,
                    subtitle_signal, offset, dtw_path, temp_made, audio_loads,
                    raised_in, ending >>
    /\ SFrame

\* lines 230-240: the duration from ffprobe, or from the signal when that fails
SDuration ==
    /\ pc = "duration"
    /\ sync = "signal"
    /\ IF audio_duration = None
       THEN \/ \E probed \in FfprobeDurations : audio_duration' = probed
            \/ audio_duration' = Rat(Len(audio_signal) * window_size_ms, 1000)
       ELSE UNCHANGED audio_duration
    /\ pc' = "signals"
    /\ UNCHANGED << is_wav, subtitle_intervals, slocals, audio_loads, raised_in, ending >>
    /\ SFrame

\* lines 242-246: the subtitle signal and the global offset; either routine can
\* raise (an allocation that fails), which the handler of line 277 takes
SSignals ==
    /\ pc = "signals"
    /\ sync = "signal"
    /\ \/ /\ subtitle_signal' =
               create_subtitle_signal(subtitle_intervals, audio_duration, window_size_ms)
          /\ offset' = find_global_offset(audio_signal, subtitle_signal', window_size_ms,
                                          max_offset_seconds)
          /\ pc' = "dtw"
          /\ UNCHANGED raised_in
       \/ /\ pc' = "except"
          /\ raised_in' = "signals"
          /\ UNCHANGED << subtitle_signal, offset >>
    /\ UNCHANGED << is_wav, subtitle_intervals, audio_duration, audio_signal, dtw_path,
                    temp_files, temp_made, audio_loads, ending >>
    /\ SFrame

\* SDtw leaving an empty path instead of None when the DTW block raises
SDtw_EmptyPathOnFailure ==
    /\ pc = "dtw"
    /\ sync = "signal"
    /\ IF use_dtw
       THEN \/ /\ dtw_path' = [bound |-> TRUE,
                                points |-> DtwOfSynchronize(audio_signal, subtitle_signal,
                                                            offset, window_size_ms)]
               /\ UNCHANGED raised_in
            \/ /\ dtw_path' = [bound |-> TRUE, points |-> << >>]
               /\ raised_in' = "dtw"
       ELSE /\ dtw_path' = [bound |-> FALSE, points |-> << >>]
            /\ UNCHANGED raised_in
    /\ pc' = "adjust"
    /\ UNCHANGED << is_wav, subtitle_intervals, audio_duration, audio_signal,
                    subtitle_signal, offset, temp_files, temp_made, audio_loads,
                    ending >>
    /\ SFrame

\* lines 248-270: the DTW path, None when DTW is off or when the DTW block raises
\* (its own handler, lines 268-270, records the step and goes on)
SDtw ==
    /\ pc = "dtw"
    /\ sync = "signal"
    /\ IF use_dtw
       THEN \/ /\ dtw_path' = [bound |-> TRUE,
                                points |-> DtwOfSynchronize(audio_signal, subtitle_signal,
                                                            offset, window_size_ms)]
               /\ UNCHANGED raised_in
            \/ /\ dtw_path' = [bound |-> FALSE, points |-> << >>]
               /\ raised_in' = "dtw"
       ELSE /\ dtw_path' = [bound |-> FALSE, points |-> << >>]
            /\ UNCHANGED raised_in
    /\ pc' = "adjust"
    /\ UNCHANGED << is_wav, subtitle_intervals, audio_duration, audio_signal,
                    subtitle_signal, offset, temp_files, temp_made, audio_loads,
                    ending >>
    /\ SFrame

\* lines 272-275: the adjusted intervals returned
SAdjust ==
    /\ pc = "adjust"
    /\ sync = "signal"
    /\ Return(275, adjust_timings(subtitle_intervals, offset, dtw_path, audio_duration,
                                  use_dtw, window_size_ms))
    /\ UNCHANGED << is_wav, subtitle_intervals, audio_duration, slocals, audio_loads,
                    raised_in >>
    /\ SFrame

\* SExcept letting the exception go on to the caller
SExcept_Reraise ==
    /\ pc = "except"
    /\ sync = "signal"
    /\ pc' = "done"
    /\ outcome' = "raised"
    /\ UNCHANGED << ret_line, result >>
    /\ UNCHANGED << is_wav, subtitle_intervals, audio_duration, slocals, audio_loads,
                    raised_in >>
    /\ SFrame

\* lines 277-280: the handler of every exception of the try block
SExcept ==
    /\ pc = "except"
    /\ sync = "signal"
    /\ Return(280, subtitle_intervals)
    /\ UNCHANGED << is_wav, subtitle_intervals, audio_duration, slocals, audio_loads,
                    raised_in >>
    /\ SFrame

----------------------------------------------------------------------------
(* The specification *)

\* the constructors (whisper_synchronizer.py 15-35, subtitle_synchronizer.py 13-26):
\* one of the two synchronizers built, no call made yet
Init ==
    /\ pc = "idle"
    /\ \/ /\ sync = "whisper"
          /\ timeout = MaxTimeout
          /\ compute_type \in { "float16", "float32" }
          /\ use_dtw = TRUE
       \/ /\ sync = "signal"
          /\ timeout = 1
          /\ compute_type = "float16"
          /\ use_dtw \in BOOLEAN
    /\ window_size_ms = 1000
    /\ max_offset_seconds = R(2)
    /\ audio_exists = FALSE
    /\ is_wav = FALSE
    /\ subtitle_intervals = << >>
    /\ subtitle_texts = << >>
    /\ audio_duration = None
    /\ elapsed = 0
    /\ model = FALSE
    /\ model_a = FALSE
    /\ segments = << >>
    /\ aligned_result = << >>
    /\ aligned_intervals = << >>
    /\ valid_intervals = << >>
    /\ scale_factor = None
    /\ audio_signal = << >>
    /\ subtitle_signal = << >>
    /\ offset = R(0)
    /\ dtw_path = [bound |-> FALSE, points |-> << >>]
    /\ audio_loads = 0
    /\ model_loads = 0
    /\ cleanups = 0
    /\ overrun = {}
    /\ raised_in = "none"
    /\ temp_files = {}
    /\ temp_made = {}
    /\ ret_line = 0
    /\ outcome = "none"
    /\ result = << >>
    /\ seconds = [kind |-> "other", value |-> None]
    /\ formatted = ""

Next ==
    \/ WSynchronize
    \/ WLoadAudio
    \/ WLoadModel
    \/ WPrepareSegments
    \/ WLoadAlignModel
    \/ WAlign
    \/ WRescale
    \/ WClamp
    \/ WEmergency
    \/ WFinish
    \/ WExcept
    \/ SSynchronize
    \/ SMakeTemp
    \/ SReadWav
    \/ SEnergy
    \/ SUnlink
    \/ SDuration
    \/ SSignals
    \/ SDtw
    \/ SAdjust
    \/ SExcept

Spec == Init /\ [][Next]_vars


----------------------------------------------------------------------------
(* SrtGenerationView._format_timestamp_srt (gui/srt_generation_view.py) *)

\* line 1091
MAX_REASONABLE_TIME == R(10 * 60 * 60)

\* the values a caller can pass as `seconds`: finite numbers (binary fractions,
\* which a float holds exactly), float('inf'), float('nan'), and objects that are
\* no int and no float (None, a str)
Number(r) == [kind |-> "number", value |-> r]
TimestampInputs ==
    { Number(R(-5)), Number(Rat(-1, 1024)), Number(R(0)), Number(Rat(1, 2048)),
      Number(Rat(1023, 1024)), Number(Rat(4095, 2048)), Number(R(61)),
      Number(Rat(3686399, 1024)), Number(R(3600)), Number(Rat(7323, 2)),
      Number(Rat(36863999, 1024)), Number(R(36000)), Number(Rat(72001, 2)),
      Number(R(37000)),
      [kind |-> "inf", value |-> None],
      [kind |-> "nan", value |-> None],
      [kind |-> "other", value |-> None] }

\* lines 1094-1101: the value that gets formatted; every comparison with NaN is
\* false, so NaN passes both tests unchanged
SanitizeSeconds(x) ==
    IF x.kind = "other" THEN Number(R(0))
    ELSE IF x.kind = "nan" THEN x
    ELSE IF x.kind = "inf" THEN Number(MAX_REASONABLE_TIME)
    ELSE IF Lt(x.value, R(0)) THEN Number(R(0))
    ELSE IF Lt(MAX_REASONABLE_TIME, x.value) THEN Number(MAX_REASONABLE_TIME)
    ELSE x

\* int(a // k) for a >= 0
FloorDiv(a, k) == a.num \div (a.den * k)

\* a % k for a >= 0
FloatMod(a, k) == Sub(a, R(k * FloorDiv(a, k)))

\* the format specs 02d and 03d
Pad2(n) == IF n < 10 THEN "0" \o ToString(n) ELSE ToString(n)
Pad3(n) == IF n < 10 THEN "00" \o ToString(n)
           ELSE IF n < 100 THEN "0" \o ToString(n) ELSE ToString(n)

\* lines 1104-1109: the four fields of a sanitized finite value and the text
FormatFields(v) ==
    LET hours == FloorDiv(v, 3600)
        minutes == FloorDiv(FloatMod(v, 3600), 60)
        secs == FloorDiv(FloatMod(v, 60), 1)
        fraction == FloatMod(v, 1)
        millisecs == (fraction.num * 1000) \div fraction.den
    IN  Pad2(hours) \o ":" \o Pad2(minutes) \o ":" \o Pad2(secs) \o "," \o Pad3(millisecs)

----------------------------------------------------------------------------
(* Direct calls of the public routines *)

\* the signals a caller can pass to find_global_offset and to
\* apply_dynamic_time_warping: one 0/1 per window, possibly no window
CallSignals == UNION { [1..k -> {0, 1}] : k \in 0..MaxWindows }

\* max_offset_seconds of the synchronizer whose find_global_offset is called
CallMaxOffsets == { R(1), R(2) }

\* intervals passed to adjust_timings: a short one at the start, one inside the
\* audio, one of zero duration
AdjustIntervals == { << R(0), Rat(1, 2) >>, << R(2), R(4) >>, << R(5), R(5) >> }

\* the lists passed to adjust_timings: up to MaxSegs intervals in time order
AdjustLists ==
    { v \in SeqsUpTo(AdjustIntervals, MaxSegs) :
        \A i \in 1..(Len(v) - 1) : Le(v[i][1], v[i + 1][1]) }

\* offsets passed to adjust_timings
CallOffsets == { R(-1), R(0), Rat(1, 2), R(3) }

\* dtw_path arguments: None, or a path apply_dynamic_time_warping produces
CallPaths ==
    { [bound |-> FALSE, points |-> << >>] } \cup
    { [bound |-> TRUE, points |-> apply_dynamic_time_warping(a, b)] :
        a \in CallSignals, b \in CallSignals }

\* what a direct call leaves alone
CallFrame ==
    UNCHANGED << sync, config, args, wlocals, audio_signal, subtitle_signal, temp_files,
                 temp_made, audio_loads, raised_in, seconds >>

\* subtitle_synchronizer.py 94-125: find_global_offset(audio_signal, subtitle_signal)
CallFindGlobalOffset ==
    /\ pc = "idle"
    /\ sync = "find_global_offset"
    /\ offset' = find_global_offset(audio_signal, subtitle_signal, window_size_ms,
                                    max_offset_seconds)
    /\ pc' = "done"
    /\ outcome' = "returned"
    /\ ret_line' = IF Len(audio_signal) = 0 \/ Len(subtitle_signal) = 0 THEN 100 ELSE 125
    /\ UNCHANGED << dtw_path, result, formatted >>
    /\ CallFrame

\* subtitle_synchronizer.py 127-162: apply_dynamic_time_warping(audio_signal,
\* subtitle_signal)
CallApplyDynamicTimeWarping ==
    /\ pc = "idle"
    /\ sync = "apply_dynamic_time_warping"
    /\ dtw_path' = [bound |-> TRUE,
                    points |-> apply_dynamic_time_warping(audio_signal, subtitle_signal)]
    /\ pc' = "done"
    /\ outcome' = "returned"
    /\ ret_line' = 162
    /\ UNCHANGED << offset, result, formatted >>
    /\ CallFrame

\* subtitle_synchronizer.py 164-210: adjust_timings(subtitle_intervals, offset,
\* dtw_path, audio_duration)
CallAdjustTimings ==
    /\ pc = "idle"
    /\ sync = "adjust_timings"
    /\ result' = adjust_timings(subtitle_intervals, offset, dtw_path, audio_duration,
                                use_dtw, window_size_ms)
    /\ pc' = "done"
    /\ outcome' = "returned"
    /\ ret_line' = IF ~dtw_path.bound \/ ~use_dtw THEN 175 ELSE 210
    /\ UNCHANGED << offset, dtw_path, formatted >>
    /\ CallFrame

\* srt_generation_view.py 1089-1110: _format_timestamp_srt(seconds); int() of a
\* NaN raises ValueError at line 1104
CallFormatTimestamp ==
    /\ pc = "idle"
    /\ sync = "_format_timestamp_srt"
    /\ pc' = "done"
    /\ IF SanitizeSeconds(seconds).kind = "nan"
       THEN /\ outcome' = "raised"
            /\ ret_line' = 1104
            /\ UNCHANGED formatted
       ELSE /\ outcome' = "returned"
            /\ ret_line' = 1110
            /\ formatted' = FormatFields(SanitizeSeconds(seconds).value)
    /\ UNCHANGED << offset, dtw_path, result >>
    /\ CallFrame

\* intervals passed to create_subtitle_signal: a whole window, one across a window
\* boundary, one inside a single window, one starting before 0, one running past
\* the end of the audio, one wholly after it
SignalIntervals ==
    { << R(0), R(1) >>, << Rat(1, 2), Rat(3, 2) >>, << Rat(5, 4), Rat(3, 2) >>,
      << R(-1), R(1) >>, << R(2), R(5) >>, << R(5), R(6) >> }

\* audio_duration passed to create_subtitle_signal: a duration is never negative
CallDurations == { R(0), R(2), Rat(5, 2), R(3) }

\* subtitle_synchronizer.py 72-92: create_subtitle_signal(subtitle_intervals,
\* audio_duration)
CallCreateSubtitleSignal ==
    /\ pc = "idle"
    /\ sync = "create_subtitle_signal"
    /\ pc' = "done"
    /\ outcome' = "returned"
    /\ ret_line' = 92
    /\ subtitle_signal' = create_subtitle_signal(subtitle_intervals, audio_duration,
                                                 window_size_ms)
    /\ UNCHANGED << sync, config, args, wlocals, audio_signal, offset, dtw_path,
                    temp_files, temp_made, audio_loads, raised_in, result, view >>

\* (utterance.start, utterance.end) of the utterances handed to _format_srt: a
\* plain one and one two hours off
UtteranceIntervals == { << R(0), R(2) >>, << R(7000), R(7200) >> }

\* the video_duration argument of _format_srt
VideoDurations == { None, R(4), R(50) }

\* frames / rate of the wave file, when it can be opened
WaveDurations == { R(3) }

\* self.current_audio_duration
CurrentAudioDurations == { None, R(50) }

\* intervals WhisperSynchronizer.synchronize can hand to the view
ReturnedIntervals == { << R(1), R(3) >>, << R(7000), R(7200) >> }

\* how lines 1011-1026 end: the constructor raises, synchronize raises, or
\* synchronize returns None or a list of any length
SynchronizeReturns ==
    { [kind |-> "raised_init", value |-> << >>],
      [kind |-> "raised", value |-> << >>],
      [kind |-> "none", value |-> << >>] } \cup
    { [kind |-> "list", value |-> v] : v \in SeqsUpTo(ReturnedIntervals, MaxSegs + 1) }

\* lines 953-963: the duration read from the wave file when none was passed
\* (detected is None when the file cannot be read)
DetectDuration(video_duration, exists, detected) ==
    IF ~Truthy(video_duration) /\ exists /\ detected # None THEN detected
    ELSE video_duration

\* lines 972-999: the pre-synchronization scaling
PreScale(ivs, video_duration) ==
    LET max_initial_timestamp == MaxEnd(ivs)
        ratio == Div(max_initial_timestamp, video_duration)
        force_scaling ==
            /\ Truthy(video_duration)
            /\ Lt(R(0), max_initial_timestamp)
            /\ (Lt(Rat(6, 5), ratio) \/ Lt(ratio, Rat(4, 5)))
        scaling_target == IF Truthy(video_duration) THEN video_duration ELSE R(60)
    IN  IF Lt(R(3600), max_initial_timestamp) \/ force_scaling
        THEN ScaleIntervals(ivs, Div(scaling_target, max_initial_timestamp))
        ELSE ivs

\* sync_successful taken from a non-empty result alone
SyncSuccessful_AnyLength(returned, texts) ==
    /\ returned.kind = "list"
    /\ returned.value # << >>

\* line 1028: sync_successful
SyncSuccessful(returned, texts) ==
    /\ returned.kind = "list"
    /\ returned.value # << >>
    /\ Len(returned.value) = Len(texts)

\* lines 1056-1071: the final validation of the intervals to use
EmergencyCorrection(ivs, video_duration) ==
    IF ivs = << >> THEN ivs
    ELSE LET max_time == MaxEnd(ivs)
             reasonable_max == IF Truthy(video_duration)
                               THEN Mul(video_duration, Rat(11, 10)) ELSE R(3600)
             target_duration == IF Truthy(video_duration) THEN video_duration
                                ELSE R(60)
             total_segments == Len(ivs)
             segment_duration == Div(target_duration, R(total_segments))
         IN  IF Lt(reasonable_max, max_time)
             THEN [k \in 1..total_segments |->
                     << Mul(R(k - 1), segment_duration),
                        PyMin(Mul(R(k), segment_duration), target_duration) >>]
             ELSE ivs

\* a SubtitleText as the str it stands for
RECURSIVE TextString(_)
TextString(t) == IF t = << >> THEN "" ELSE Head(t) \o TextString(Tail(t))

\* lines 1074-1087: the entries of zip(intervals_to_use, subtitle_texts) from the
\* i-th on, every line followed by a line feed but the last
RECURSIVE SrtEntries(_, _, _)
SrtEntries(ivs, texts, i) ==
    IF i > Len(ivs) \/ i > Len(texts) THEN ""
    ELSE LET rest == SrtEntries(ivs, texts, i + 1)
         IN  IF Strip(texts[i]) = << >> THEN rest
             ELSE ToString(i) \o "\n"
                  \o FormatFields(SanitizeSeconds(Number(ivs[i][1])).value) \o " --> "
                  \o FormatFields(SanitizeSeconds(Number(ivs[i][2])).value) \o "\n"
                  \o TextString(texts[i]) \o "\n"
                  \o (IF rest = "" THEN "" ELSE "\n" \o rest)

\* srt_generation_view.py 938-1087: _format_srt(utterances, video_duration) for
\* utterances that carry start and end; subtitle_intervals and subtitle_texts are
\* the two lists of lines 968-969, audio_exists is the test of line 1006; the wave
\* file is read only when no duration was passed, and the synchronizer is called
\* only when the audio file exists
CallFormatSrt ==
    /\ pc = "idle"
    /\ sync = "_format_srt"
    /\ pc' = "done"
    /\ outcome' = "returned"
    /\ IF subtitle_intervals = << >>
       THEN /\ ret_line' = 942
            /\ formatted' = "1\n00:00:00,000 --> 00:00:05,000\nNo transcription available.\n"
            /\ UNCHANGED << subtitle_intervals, audio_duration, aligned_intervals,
                            raised_in, result >>
       ELSE \E detected \in (IF audio_exists /\ ~Truthy(audio_duration)
                              THEN WaveDurations \cup { None } ELSE { None }),
               current_audio_duration \in
                   (IF audio_exists /\ ~Truthy(audio_duration)
                    THEN CurrentAudioDurations ELSE { None }),
               returned \in (IF audio_exists THEN SynchronizeReturns
                             ELSE { [kind |-> "none", value |-> << >>] }) :
               LET detected_duration ==
                       DetectDuration(audio_duration, audio_exists, detected)
                   scaled == PreScale(subtitle_intervals, detected_duration)
                   video_duration ==
                       IF /\ audio_exists
                          /\ returned.kind # "raised_init"
                          /\ ~Truthy(detected_duration)
                          /\ Truthy(current_audio_duration)
                       THEN current_audio_duration ELSE detected_duration
                   sync_successful ==
                       audio_exists /\ SyncSuccessful(returned, subtitle_texts)
                   intervals_to_use ==
                       EmergencyCorrection(IF sync_successful THEN returned.value
                                           ELSE scaled, video_duration)
               IN  /\ subtitle_intervals' = scaled
                   /\ audio_duration' = video_duration
                   /\ aligned_intervals' = IF audio_exists THEN returned.value
                                           ELSE << >>
                   /\ raised_in' = IF audio_exists /\ returned.kind = "raised_init"
                                   THEN "init"
                                   ELSE IF audio_exists /\ returned.kind = "raised"
                                   THEN "synchronize" ELSE "none"
                   /\ result' = intervals_to_use
                   /\ formatted' = SrtEntries(intervals_to_use, subtitle_texts, 1)
                   /\ ret_line' = 1087
    /\ UNCHANGED << sync, config, audio_exists, is_wav, subtitle_texts, elapsed, model,
                    model_a, segments, aligned_result, valid_intervals, scale_factor,
                    model_loads, cleanups, overrun, slocals, audio_loads, seconds >>

\* one routine about to be called with arguments a caller can pass
InitCalls ==
    /\ pc = "idle"
    /\ sync \in { "create_subtitle_signal", "find_global_offset",
                  "apply_dynamic_time_warping", "adjust_timings",
                  "_format_timestamp_srt", "_format_srt" }
    /\ dtw_path \in
          (IF sync = "adjust_timings" THEN CallPaths
           ELSE { [bound |-> FALSE, points |-> << >>] })
    /\ timeout = MaxTimeout
    /\ compute_type = "float16"
    /\ window_size_ms = 1000
    /\ use_dtw \in (IF sync = "adjust_timings" THEN BOOLEAN ELSE { TRUE })
    /\ max_offset_seconds \in
          (IF sync = "find_global_offset" THEN CallMaxOffsets ELSE { R(2) })
    /\ audio_exists \in (IF sync = "_format_srt" THEN BOOLEAN ELSE { FALSE })
    /\ is_wav = FALSE
    /\ subtitle_intervals \in
          (IF sync = "adjust_timings" THEN AdjustLists
           ELSE IF sync = "create_subtitle_signal"
           THEN SeqsUpTo(SignalIntervals, MaxSegs)
           ELSE IF sync = "_format_srt" THEN SeqsUpTo(UtteranceIntervals, MaxSegs)
           ELSE { << >> })
    /\ subtitle_texts \in
          (IF sync = "_format_srt" THEN [1..Len(subtitle_intervals) -> TextValues]
           ELSE { << >> })
    /\ audio_duration \in
          (IF sync = "adjust_timings" THEN SignalDurations
           ELSE IF sync = "create_subtitle_signal" THEN CallDurations
           ELSE IF sync = "_format_srt" THEN VideoDurations
           ELSE { None })
    /\ elapsed = 0
    /\ model = FALSE
    /\ model_a = FALSE
    /\ segments = << >>
    /\ aligned_result = << >>
    /\ aligned_intervals = << >>
    /\ valid_intervals = << >>
    /\ scale_factor = None
    /\ audio_signal \in
          (IF sync \in { "find_global_offset", "apply_dynamic_time_warping" }
           THEN CallSignals ELSE { << >> })
    /\ subtitle_signal \in
          (IF sync \in { "find_global_offset", "apply_dynamic_time_warping" }
           THEN CallSignals ELSE { << >> })
    /\ offset \in (IF sync = "adjust_timings" THEN CallOffsets ELSE { R(0) })
    /\ audio_loads = 0
    /\ model_loads = 0
    /\ cleanups = 0
    /\ overrun = {}
    /\ raised_in = "none"
    /\ temp_files = {}
    /\ temp_made = {}
    /\ ret_line = 0
    /\ outcome = "none"
    /\ result = << >>
    /\ seconds \in
          (IF sync = "_format_timestamp_srt" THEN TimestampInputs
           ELSE { [kind |-> "other", value |-> None] })
    /\ formatted = ""

NextCalls ==
    \/ CallCreateSubtitleSignal
    \/ CallFindGlobalOffset
    \/ CallApplyDynamicTimeWarping
    \/ CallAdjustTimings
    \/ CallFormatTimestamp
    \/ CallFormatSrt

SpecCalls == InitCalls /\ [][NextCalls]_vars

\* ---------------------------------------------------------------------------
\* Properties of WhisperSynchronizer.synchronize
\* ---------------------------------------------------------------------------

\* C1: whenever the call gets through its entry checks (the audio file exists,
\* intervals and texts have the same length) and the aligner, when reached,
\* hands back one segment per segment it was given, the returned list has as
\* many entries as the input list.
C1_LengthPreserved ==
    ( /\ pc = "done"
      /\ sync = "whisper"
      /\ audio_exists
      /\ Len(subtitle_intervals) = Len(subtitle_texts)
      /\ (ret_line = 215 => Len(aligned_result) = Len(segments)) )
    => Len(result) = Len(subtitle_intervals)

\* C2: once the elapsed time has passed the timeout at the end of an expensive
\* step (audio load, model load, alignment-model load, alignment), the call
\* abandons the alignment and returns the original intervals.
C2_TimeoutReturnsOriginal ==
    ( /\ pc = "done"
      /\ sync = "whisper"
      /\ overrun # {} )
    => /\ ret_line # 215
       /\ result = subtitle_intervals

\* C3: a call in which a model load was attempted has run the GPU cleanup by the
\* time it returns, whichever way it returns, and holds no model any more.
C3_CleanupBeforeReturn ==
    ( /\ pc = "done"
      /\ sync = "whisper"
      /\ model_loads > 0 )
    => /\ cleanups >= 1
       /\ ~model
       /\ ~model_a

\* a return from the exception handler after the model was loaded and the
\* alignment raised
C3_Witness ==
    /\ pc = "done"
    /\ sync = "whisper"
    /\ model_loads > 0
    /\ raised_in = "align"
    /\ ret_line = 222
    /\ cleanups = 1

\* C4 as stated: with a known audio duration, an aligner output with an end-time
\* over 3600 s is discarded and segment i of n is returned as
\* [(i-1)*d/n, i*d/n).
C4_RawOverHourRedistributed ==
    ( /\ pc = "done"
      /\ sync = "whisper"
      /\ ret_line = 215
      /\ Truthy(audio_duration)
      /\ Lt(R(0), audio_duration)
      /\ \E i \in 1..Len(aligned_result) : Lt(R(3600), aligned_result[i][2]) )
    => /\ Len(result) = Len(aligned_result)
       /\ \A i \in 1..Len(result) :
             result[i] =
                << Rat((i - 1) * audio_duration.num, Len(result) * audio_duration.den),
                   Rat(i * audio_duration.num, Len(result) * audio_duration.den) >>

\* C4: with a known audio duration, when an end-time is still over 3600 s after
\* the rescale and the clamp, the duration itself is over 3600 s, the aligned
\* timing is discarded and segment i of n is returned as [(i-1)*d/n, i*d/n).
C4_ClampedOverHourRedistributed ==
    ( /\ pc = "done"
      /\ sync = "whisper"
      /\ ret_line = 215
      /\ Truthy(audio_duration)
      /\ Lt(R(0), audio_duration)
      /\ \E i \in 1..Len(valid_intervals) : Lt(R(3600), valid_intervals[i][2]) )
    => /\ Lt(R(3600), audio_duration)
       /\ Len(result) = Len(aligned_result)
       /\ \A i \in 1..Len(result) :
             result[i] =
                << Rat((i - 1) * audio_duration.num, Len(result) * audio_duration.den),
                   Rat(i * audio_duration.num, Len(result) * audio_duration.den) >>

\* two segments of a 7200 s audio, one of them clamped to an end over 3600 s,
\* returned as the two halves of the audio
C4_Witness ==
    /\ pc = "done"
    /\ sync = "whisper"
    /\ ret_line = 215
    /\ audio_duration = R(7200)
    /\ Len(valid_intervals) = 2
    /\ \E i \in 1..2 : Lt(R(3600), valid_intervals[i][2])
    /\ result = << << R(0), R(3600) >>, << R(3600), R(7200) >> >>

\* C5: with a known positive audio duration, every interval of an aligned
\* result is at least 0.1 s long.
C5_MinimumLength ==
    ( /\ pc = "done"
      /\ sync = "whisper"
      /\ ret_line = 215
      /\ Truthy(audio_duration)
      /\ Lt(R(0), audio_duration) )
    => \A i \in 1..Len(result) :
          Le(Rat(1, 10), Sub(result[i][2], result[i][1]))

\* C6: with a known positive audio duration, every interval of an aligned
\* result starts at 0 or later and ends at the audio duration or earlier.
C6_WithinAudio ==
    ( /\ pc = "done"
      /\ sync = "whisper"
      /\ ret_line = 215
      /\ Truthy(audio_duration)
      /\ Lt(R(0), audio_duration) )
    => \A i \in 1..Len(result) :
          /\ Le(R(0), result[i][1])
          /\ Le(result[i][2], audio_duration)

\* an aligned result for a 50 s audio whose aligner output started before 0 and
\* held a zero-length segment
C6_Witness ==
    /\ pc = "done"
    /\ sync = "whisper"
    /\ ret_line = 215
    /\ audio_duration = R(50)
    /\ aligned_result = << << R(-1), R(3) >>, << R(3), R(3) >> >>
    /\ result = << << R(0), R(3) >>, << R(3), Rat(31, 10) >> >>

\* C7 as stated: after tier 1 the intervals are the aligner output times
\* audio_duration / (largest end) exactly when the largest end exceeds
\* 1.1 * audio_duration, and the aligner output itself otherwise.
C7_RescaledWhenExceeding ==
    ( /\ pc = "clamp"
      /\ sync = "whisper"
      /\ aligned_result # << >> )
    => IF Lt(Mul(audio_duration, Rat(11, 10)), MaxEnd(aligned_result))
       THEN \A i \in 1..Len(aligned_result) : \A j \in 1..2 :
               /\ MaxEnd(aligned_result).num # 0
               /\ aligned_intervals[i][j] =
                     Rat(aligned_result[i][j].num * audio_duration.num
                            * MaxEnd(aligned_result).den,
                         aligned_result[i][j].den * audio_duration.den
                            * MaxEnd(aligned_result).num)
       ELSE aligned_intervals = aligned_result

\* C7: for an audio duration other than zero, after tier 1 the intervals are
\* the aligner output times audio_duration / (largest end) exactly when the
\* largest end exceeds 1.1 * audio_duration, and the aligner output itself
\* otherwise; for a duration of zero they are the aligner output itself.
C7_RescaledWhenExceedingNonZero ==
    ( /\ pc = "clamp"
      /\ sync = "whisper"
      /\ aligned_result # << >> )
    => IF /\ audio_duration.num # 0
          /\ Lt(Mul(audio_duration, Rat(11, 10)), MaxEnd(aligned_result))
       THEN \A i \in 1..Len(aligned_result) : \A j \in 1..2 :
               /\ MaxEnd(aligned_result).num # 0
               /\ aligned_intervals[i][j] =
                     Rat(aligned_result[i][j].num * audio_duration.num
                            * MaxEnd(aligned_result).den,
                         aligned_result[i][j].den * audio_duration.den
                            * MaxEnd(aligned_result).num)
       ELSE aligned_intervals = aligned_result

\* a 60 s audio whose aligner output ends at 650 s, scaled by 60/650
C7_Witness ==
    /\ pc = "clamp"
    /\ sync = "whisper"
    /\ audio_duration = R(60)
    /\ aligned_result = << << R(-1), R(3) >>, << R(100), R(650) >> >>
    /\ scale_factor = Rat(6, 65)
    /\ aligned_intervals =
          << << Rat(-6, 65), Rat(18, 65) >>, << Rat(120, 13), R(60) >> >>

\* C8: the call never raises; a missing audio file, texts and intervals of
\* different lengths, and an exception anywhere in the pipeline each end in a
\* return of the original intervals.
C8_FailureReturnsOriginal ==
    /\ outcome # "raised"
    /\ ( /\ pc = "done"
         /\ sync = "whisper"
         /\ \/ ~audio_exists
            \/ Len(subtitle_intervals) # Len(subtitle_texts)
            \/ raised_in # "none" )
       => /\ outcome = "returned"
          /\ result = subtitle_intervals

\* the model load raised twice (float16, then the float32 retry) and the
\* original two intervals came back
C8_Witness ==
    /\ pc = "done"
    /\ sync = "whisper"
    /\ raised_in = "load_model"
    /\ model_loads = 2
    /\ Len(subtitle_intervals) = 2
    /\ outcome = "returned"
    /\ result = subtitle_intervals

\* ---------------------------------------------------------------------------
\* Properties of both synchronizers
\* ---------------------------------------------------------------------------

\* C9: a call of either synchronizer with an empty interval list returns the
\* empty list without having loaded or decoded the audio.
C9_EmptyInputNoAudio ==
    ( /\ pc = "done"
      /\ subtitle_intervals = << >> )
    => /\ result = << >>
       /\ audio_loads = 0

\* ---------------------------------------------------------------------------
\* Properties of SubtitleSynchronizer
\* ---------------------------------------------------------------------------

\* C10: when a call of SubtitleSynchronizer.synchronize has ended, on the
\* normal path or through an exception, no temporary WAV file it created is
\* left on disk.
C10_TempFilesDeleted ==
    ( /\ pc = "done"
      /\ sync = "signal" )
    => temp_files = {}


\* C11: a call of SubtitleSynchronizer.synchronize returns as many intervals as
\* it was given, whichever way it ends; the handler returns the input itself,
\* and on the normal return output i is what the adjustment makes of input i
\* alone.
C11_SameLengthAndOrder ==
    ( /\ pc = "done"
      /\ sync = "signal" )
    => /\ Len(result) = Len(subtitle_intervals)
       /\ ret_line = 280 => result = subtitle_intervals
       /\ ret_line = 275 =>
             \A i \in 1..Len(result) :
                result[i] = IF dtw_path.bound /\ use_dtw
                            THEN AdjustWithPath(subtitle_intervals[i], offset,
                                                dtw_path.points, audio_duration,
                                                window_size_ms)
                            ELSE AdjustWithOffset(subtitle_intervals[i], offset,
                                                  audio_duration)

\* two intervals adjusted along a DTW path into something else than the input
C11_Witness ==
    /\ pc = "done"
    /\ sync = "signal"
    /\ ret_line = 275
    /\ dtw_path.bound
    /\ Len(subtitle_intervals) = 2
    /\ Len(result) = 2
    /\ result # subtitle_intervals

C13_OffsetWithinLimit ==
    ( /\ pc = "done"
      /\ sync = "find_global_offset" )
    => /\ Le(RatAbs(offset), max_offset_seconds)
       /\ \E k \in (0 - MaxWindows)..MaxWindows : offset = Rat(k * window_size_ms, 1000)

\* the only speech window of the audio lies two windows (2 s) after the only
\* subtitle window, the limit is 1 s, and the offset returned is 0
C13_Witness ==
    /\ pc = "done"
    /\ sync = "find_global_offset"
    /\ audio_signal = << 0, 0, 1 >>
    /\ subtitle_signal = << 1 >>
    /\ max_offset_seconds = R(1)
    /\ offset = R(0)

\* C14: find_global_offset given the same binary signal twice returns 0,
\* whatever the signal.
C14_IdenticalSignalsZeroOffset ==
    ( /\ pc = "done"
      /\ sync = "find_global_offset"
      /\ audio_signal = subtitle_signal )
    => offset = R(0)

\* ---------------------------------------------------------------------------
\* Properties of SrtGenerationView._format_timestamp_srt
\* ---------------------------------------------------------------------------

\* C15: for every input the formatter returns the text HH:MM:SS,mmm of the
\* input clamped to [0, 36000] seconds and cut to whole milliseconds: an input
\* that is no number, or a negative one, gives "00:00:00,000", one above 36000
\* gives "10:00:00,000", and the fields are zero-padded to 2, 2, 2 and 3 digits.
C15_FormatsClampedValue ==
    ( /\ pc = "done"
      /\ sync = "_format_timestamp_srt" )
    => LET v == seconds.value
           total_ms ==
               IF seconds.kind \in { "other", "nan" } THEN 0
               ELSE IF seconds.kind = "inf" THEN 36000000
               ELSE IF v.num < 0 THEN 0
               ELSE IF v.num > 36000 * v.den THEN 36000000
               ELSE (v.num \div v.den) * 1000 + ((v.num % v.den) * 1000) \div v.den
           digit == << "0", "1", "2", "3", "4", "5", "6", "7", "8", "9" >>
           two(n) == digit[(n \div 10) + 1] \o digit[(n % 10) + 1]
           three(n) == digit[(n \div 100) + 1] \o two(n % 100)
       IN  /\ outcome = "returned"
           /\ formatted = two(total_ms \div 3600000) \o ":"
                          \o two((total_ms \div 60000) % 60) \o ":"
                          \o two((total_ms \div 1000) % 60) \o ","
                          \o three(total_ms % 1000)

\* ---------------------------------------------------------------------------
\* Properties of SubtitleSynchronizer.adjust_timings
\* ---------------------------------------------------------------------------

\* C16: every interval adjust_timings returns, in offset-only mode and in DTW
\* mode, is at least 0.1 s long (so (5.0, 5.0) with offset 0 becomes (5.0, 5.1)).
C16_AdjustedMinimumDuration ==
    ( /\ pc = "done"
      /\ sync = "adjust_timings" )
    => \A i \in 1..Len(result) :
          Le(Rat(1, 10), Sub(result[i][2], result[i][1]))

\* C17: with an audio duration given, every interval adjust_timings returns
\* ends at the audio duration or earlier, an end extended to start + 0.1
\* included.
C17_AdjustedEndWithinDuration ==
    ( /\ pc = "done"
      /\ sync = "adjust_timings"
      /\ audio_duration # None )
    => \A i \in 1..Len(result) : Le(result[i][2], audio_duration)

\* C18: in offset-only mode, for an offset o with |o| <= max_offset_seconds,
\* adjust_timings returns one interval per input interval, in input order, with
\* start' = max(0, start + o) and end' = min(duration, end + o) (end + o when no
\* duration is given).
C18_OffsetOnlyShift ==
    ( /\ pc = "done"
      /\ sync = "adjust_timings"
      /\ ~dtw_path.bound \/ ~use_dtw
      /\ Le(RatAbs(offset), max_offset_seconds) )
    => /\ Len(result) = Len(subtitle_intervals)
       /\ \A i \in 1..Len(result) :
             LET start == Add(subtitle_intervals[i][1], offset)
                 end == Add(subtitle_intervals[i][2], offset)
             IN  /\ result[i][1] = IF Lt(start, R(0)) THEN R(0) ELSE start
                 /\ result[i][2] = IF audio_duration # None /\ Lt(audio_duration, end)
                                   THEN audio_duration ELSE end

\* two intervals shifted by 0.5 s in a 4 s audio: the second end is held at 4 s
C18_Witness ==
    /\ pc = "done"
    /\ sync = "adjust_timings"
    /\ ~dtw_path.bound
    /\ offset = Rat(1, 2)
    /\ audio_duration = R(4)
    /\ subtitle_intervals = << << R(0), Rat(1, 2) >>, << R(2), R(4) >> >>
    /\ result = << << Rat(1, 2), R(1) >>, << Rat(5, 2), R(4) >> >>

\* C19: for input intervals with 0 <= start < end and an offset o with
\* |o| <= max_offset_seconds, every interval adjust_timings returns, in either
\* mode, has a start and an end that are not negative.
C19_AdjustedNonNegative ==
    ( /\ pc = "done"
      /\ sync = "adjust_timings"
      /\ Le(RatAbs(offset), max_offset_seconds)
      /\ \A i \in 1..Len(subtitle_intervals) :
            /\ Le(R(0), subtitle_intervals[i][1])
            /\ Lt(subtitle_intervals[i][1], subtitle_intervals[i][2]) )
    => \A i \in 1..Len(result) :
          /\ Le(R(0), result[i][1])
          /\ Le(R(0), result[i][2])

\* ---------------------------------------------------------------------------
\* Properties of SubtitleSynchronizer.apply_dynamic_time_warping
\* ---------------------------------------------------------------------------

\* C20 as stated: for binary sequences of any lengths n and m the path starts
\* at (0, 0), ends at (n-1, m-1) and never decreases in either coordinate.
C20_PathEndpointsAnyLength ==
    ( /\ pc = "done"
      /\ sync = "apply_dynamic_time_warping" )
    => LET path == dtw_path.points
       IN  /\ Len(path) >= 1
           /\ path[1] = << 0, 0 >>
           /\ path[Len(path)] = << Len(audio_signal) - 1, Len(subtitle_signal) - 1 >>
           /\ \A k \in 1..(Len(path) - 1) :
                 /\ path[k][1] <= path[k + 1][1]
                 /\ path[k][2] <= path[k + 1][2]

\* C20: for binary sequences of lengths n >= 1 and m >= 1 the path starts at
\* (0, 0), ends at (n-1, m-1) and never decreases in either coordinate; when one
\* of the sequences is empty the path is empty.
C20_PathEndpointsNonEmpty ==
    ( /\ pc = "done"
      /\ sync = "apply_dynamic_time_warping" )
    => LET path == dtw_path.points
       IN  IF Len(audio_signal) >= 1 /\ Len(subtitle_signal) >= 1
           THEN /\ Len(path) >= 1
                /\ path[1] = << 0, 0 >>
                /\ path[Len(path)] =
                      << Len(audio_signal) - 1, Len(subtitle_signal) - 1 >>
                /\ \A k \in 1..(Len(path) - 1) :
                      /\ path[k][1] <= path[k + 1][1]
                      /\ path[k][2] <= path[k + 1][2]
           ELSE path = << >>

\* three audio windows against two subtitle windows: a path of three points
\* from (0, 0) to (2, 1)
C20_Witness ==
    /\ pc = "done"
    /\ sync = "apply_dynamic_time_warping"
    /\ audio_signal = << 0, 1, 1 >>
    /\ subtitle_signal = << 0, 1 >>
    /\ Len(dtw_path.points) = 3
    /\ dtw_path.points[1] = << 0, 0 >>
    /\ dtw_path.points[3] = << 2, 1 >>

\* C21: for sequences A and B of lengths n, m >= 1 (the lengths for which a
\* warping path from (0, 0) to (n-1, m-1) exists), the number of points (i, j)
\* of the returned path with A[i] # B[j] equals cost[n][m] of the recurrence and
\* is the least such number over all paths from (0, 0) to (n-1, m-1) made of
\* steps (1, 0), (0, 1) and (1, 1).
C21_PathIsMinimumCost ==
    ( /\ pc = "done"
      /\ sync = "apply_dynamic_time_warping"
      /\ Len(audio_signal) >= 1
      /\ Len(subtitle_signal) >= 1 )
    => LET n == Len(audio_signal)
           m == Len(subtitle_signal)
           path == dtw_path.points
           mismatch(i, j) == IF audio_signal[i + 1] = subtitle_signal[j + 1] THEN 0 ELSE 1
           on_path == Cardinality({ k \in 1..Len(path) :
                                      mismatch(path[k][1], path[k][2]) = 1 })
           RECURSIVE BestFrom(_, _)
           BestFrom(i, j) ==
               mismatch(i, j) +
               ( IF i = n - 1 /\ j = m - 1 THEN 0
                 ELSE IF i = n - 1 THEN BestFrom(i, j + 1)
                 ELSE IF j = m - 1 THEN BestFrom(i + 1, j)
                 ELSE IntMin(BestFrom(i + 1, j + 1),
                             IntMin(BestFrom(i + 1, j), BestFrom(i, j + 1))) )
       IN  /\ on_path = CostMatrix(audio_signal, subtitle_signal)[n + 1][m + 1]
           /\ on_path = BestFrom(0, 0)

\* 0,1,1 against 1,1,0: every path has a mismatch at (0, 0) and at (2, 2), and
\* the returned path has exactly these two
C21_Witness ==
    /\ pc = "done"
    /\ sync = "apply_dynamic_time_warping"
    /\ audio_signal = << 0, 1, 1 >>
    /\ subtitle_signal = << 1, 1, 0 >>
    /\ Cardinality({ k \in 1..Len(dtw_path.points) :
                       audio_signal[dtw_path.points[k][1] + 1]
                          # subtitle_signal[dtw_path.points[k][2] + 1] }) = 2

\* C22: when the DTW block of SubtitleSynchronizer.synchronize raises, the call
\* returns normally, with every interval shifted by the global offset already
\* estimated: start' = max(0, start + offset), end' = min(duration, end + offset).
C22_DtwFailureFallsBackToOffset ==
    ( /\ pc = "done"
      /\ sync = "signal"
      /\ raised_in = "dtw" )
    => /\ outcome = "returned"
       /\ ret_line = 275
       /\ Len(result) = Len(subtitle_intervals)
       /\ \A i \in 1..Len(result) :
             LET start == Add(subtitle_intervals[i][1], offset)
                 end == Add(subtitle_intervals[i][2], offset)
             IN  /\ result[i][1] = IF Lt(start, R(0)) THEN R(0) ELSE start
                 /\ result[i][2] = IF Lt(audio_duration, end) THEN audio_duration
                                   ELSE end

\* the DTW block raised after an offset of one window was found; the second of
\* two intervals comes back shifted and cut at the duration
C22_Witness ==
    /\ pc = "done"
    /\ sync = "signal"
    /\ raised_in = "dtw"
    /\ use_dtw
    /\ offset = R(1)
    /\ Len(subtitle_intervals) = 2
    /\ result # subtitle_intervals

\* C23: create_subtitle_signal never raises and returns
\* floor(duration_ms / window_size_ms) values in which window w is 1 exactly when
\* some interval's [start, end) overlaps the span of window w, whatever the
\* intervals: partly or wholly outside [0, duration), or shorter than a window.
C23_SignalMarksOverlappedWindows ==
    ( /\ pc = "done"
      /\ sync = "create_subtitle_signal" )
    => /\ outcome = "returned"
       /\ Len(subtitle_signal) = FloorDiv(Mul(audio_duration, R(1000)), window_size_ms)
       /\ \A w \in 0..(Len(subtitle_signal) - 1) :
             LET from == Div(R(w * window_size_ms), R(1000))
                 to == Div(R((w + 1) * window_size_ms), R(1000))
                 overlapped ==
                     \E i \in 1..Len(subtitle_intervals) :
                        /\ Lt(subtitle_intervals[i][1], subtitle_intervals[i][2])
                        /\ Lt(subtitle_intervals[i][1], to)
                        /\ Lt(from, subtitle_intervals[i][2])
             IN  subtitle_signal[w + 1] = (IF overlapped THEN 1 ELSE 0)

\* C24: when the largest cross-correlation value is attained at several lags,
\* find_global_offset takes the lowest of them and returns it in seconds, or 0.0
\* when that exceeds max_offset_seconds.
C24_FirstMaximumWins ==
    ( /\ pc = "done"
      /\ sync = "find_global_offset"
      /\ Len(audio_signal) > 0
      /\ Len(subtitle_signal) > 0 )
    => LET n == IntMax(Len(audio_signal), Len(subtitle_signal))
           a == PadRight(audio_signal, n)
           b == PadRight(subtitle_signal, n)
           value(k) == CorrelateAt(a, b, k, 1)
           maxima == { k \in 0..(2 * n - 2) :
                         \A j \in 0..(2 * n - 2) : value(j) <= value(k) }
           lowest == CHOOSE k \in maxima : \A j \in maxima : k <= j
           seconds_of_lowest == Rat((lowest - (n - 1)) * window_size_ms, 1000)
       IN  Cardinality(maxima) > 1
           => offset = IF Lt(max_offset_seconds, RatAbs(seconds_of_lowest)) THEN R(0)
                       ELSE seconds_of_lowest

\* the correlation of <<0, 1, 1>> with <<1, 0, 0>> is 1 at lags 1 and 2; lag 1 wins
C24_Witness ==
    /\ pc = "done"
    /\ sync = "find_global_offset"
    /\ audio_signal = << 0, 1, 1 >>
    /\ subtitle_signal = << 1, 0, 0 >>
    /\ CorrelateAt(audio_signal, subtitle_signal, 3, 1) = 1
    /\ CorrelateAt(audio_signal, subtitle_signal, 4, 1) = 1
    /\ offset = R(1)

\* C25: adjust_timings in DTW mode with a path that holds no point raises nothing
\* and moves each boundary by the offset (start + offset, end + offset), then
\* clamps the start at 0 and the end at the duration and applies the rule of the
\* minimum duration of 0.1 s.
C25_EmptyPathUsesOffset ==
    ( /\ pc = "done"
      /\ sync = "adjust_timings"
      /\ use_dtw
      /\ dtw_path.bound
      /\ dtw_path.points = << >> )
    => /\ outcome = "returned"
       /\ Len(result) = Len(subtitle_intervals)
       /\ \A i \in 1..Len(result) :
             LET shifted_start == Add(subtitle_intervals[i][1], offset)
                 shifted_end == Add(subtitle_intervals[i][2], offset)
                 start == IF Lt(shifted_start, R(0)) THEN R(0) ELSE shifted_start
                 end == IF audio_duration # None /\ Lt(audio_duration, shifted_end)
                        THEN audio_duration ELSE shifted_end
             IN  /\ result[i][1] = start
                 /\ result[i][2] = IF Lt(Sub(end, start), Rat(1, 10))
                                   THEN Add(start, Rat(1, 10)) ELSE end

\* an empty path and an offset of half a second: (2, 4) becomes (2.5, 4) in an
\* audio of 4 s
C25_Witness ==
    /\ pc = "done"
    /\ sync = "adjust_timings"
    /\ use_dtw
    /\ dtw_path = [bound |-> TRUE, points |-> << >>]
    /\ offset = Rat(1, 2)
    /\ audio_duration = R(4)
    /\ subtitle_intervals = << << R(2), R(4) >> >>
    /\ result = << << Rat(5, 2), R(4) >> >>

\* C26: in _format_srt the list zipped with subtitle_texts has len(subtitle_texts)
\* entries whatever WhisperSynchronizer.synchronize does (None, an empty, shorter
\* or longer list, an exception): its result is taken only when it is non-empty
\* and as long as the texts, the (possibly pre-scaled) original intervals
\* otherwise, and the emergency redistribution keeps the count.
C26_ZippedListMatchesTexts ==
    ( /\ pc = "done"
      /\ sync = "_format_srt" )
    => LET taken == IF /\ aligned_intervals # << >>
                       /\ Len(aligned_intervals) = Len(subtitle_texts)
                    THEN aligned_intervals ELSE subtitle_intervals
           target == IF Truthy(audio_duration) THEN audio_duration ELSE R(60)
           n == Len(subtitle_texts)
           even == [k \in 1..n |-> << Div(Mul(R(k - 1), target), R(n)),
                                      Div(Mul(R(k), target), R(n)) >>]
       IN  /\ Len(result) = Len(subtitle_texts)
           /\ result = taken \/ result = even

\* synchronize handed back three intervals for two texts: the view falls back on
\* its own two intervals
C26_Witness ==
    /\ pc = "done"
    /\ sync = "_format_srt"
    /\ Len(subtitle_texts) = 2
    /\ Len(aligned_intervals) = 3
    /\ raised_in = "none"
    /\ result = subtitle_intervals

\* C27: in WhisperSynchronizer.synchronize the linear redistribution of tier 3
\* happens only with a working duration over 3600 s: with a duration of at most
\* 3600 s, zero or unknown, whatever the aligner reported, the intervals returned
\* are the ones tiers 1 and 2 left (the aligner's own when the duration is zero
\* or unknown), not the even split.
C27_NoRedistributionUpToAnHour ==
    ( /\ pc = "done"
      /\ sync = "whisper"
      /\ ret_line = 215
      /\ ~(Truthy(audio_duration) /\ Lt(R(3600), audio_duration)) )
    => result = IF aligned_result # << >> /\ Truthy(audio_duration)
                THEN valid_intervals ELSE aligned_result

\* a 50 s audio whose aligner output ends at 7200 s: the result is the scaled and
\* clamped output, not the even split
C27_Witness ==
    /\ pc = "done"
    /\ sync = "whisper"
    /\ ret_line = 215
    /\ audio_duration = R(50)
    /\ aligned_result = ScenarioThree
    /\ result = valid_intervals
    /\ result # Redistribute(Len(result), audio_duration)

\* C28: in DTW mode with a path of at least one point the result of
\* adjust_timings is the same whatever the offset argument is.
C28_OffsetIgnoredWithPath ==
    ( /\ pc = "done"
      /\ sync = "adjust_timings"
      /\ use_dtw
      /\ dtw_path.bound
      /\ dtw_path.points # << >> )
    => \A other \in CallOffsets :
          result = adjust_timings(subtitle_intervals, other, dtw_path, audio_duration,
                                  use_dtw, window_size_ms)

\* a call with offset 3 and a path: the result is the one offset 0 gives, and
\* not the intervals moved by 3 s
C28_Witness ==
    /\ pc = "done"
    /\ sync = "adjust_timings"
    /\ use_dtw
    /\ dtw_path.bound
    /\ dtw_path.points # << >>
    /\ offset = R(3)
    /\ subtitle_intervals = << << R(2), R(4) >> >>
    /\ result = adjust_timings(subtitle_intervals, R(0), dtw_path, audio_duration,
                               use_dtw, window_size_ms)
    /\ result # << AdjustWithOffset(subtitle_intervals[1], offset, audio_duration) >>

\* C29: when the subtitle signal holds a 1 and the audio signal is the subtitle
\* signal delayed by k >= 0 windows (zeros in front, no window holding a 1 cut
\* off at the end) with k * window_size_ms / 1000 <= max_offset_seconds,
\* find_global_offset returns exactly k * window_size_ms / 1000.
C29_DelayRecovered ==
    ( /\ pc = "done"
      /\ sync = "find_global_offset"
      /\ \E i \in 1..Len(subtitle_signal) : subtitle_signal[i] = 1 )
    => \A k \in 0..MaxWindows :
          ( /\ \A j \in 1..Len(audio_signal) :
                  audio_signal[j] = IF j > k /\ j - k <= Len(subtitle_signal)
                                    THEN subtitle_signal[j - k] ELSE 0
            /\ \A i \in 1..Len(subtitle_signal) :
                  subtitle_signal[i] = 1 => i + k <= Len(audio_signal)
            /\ Le(Rat(k * window_size_ms, 1000), max_offset_seconds) )
          => offset = Rat(k * window_size_ms, 1000)

\* <<1, 0>> delayed by two windows inside a limit of two seconds
C29_Witness ==
    /\ pc = "done"
    /\ sync = "find_global_offset"
    /\ subtitle_signal = << 1, 0 >>
    /\ audio_signal = << 0, 0, 1 >>
    /\ max_offset_seconds = R(2)
    /\ offset = R(2)

\* C30: for sequences of lengths n, m >= 1 each point of the path returned by
\* apply_dynamic_time_warping differs from the one before it by exactly (1, 0),
\* (0, 1) or (1, 1), and the path has at least max(n, m) and at most n + m - 1
\* points.
C30_UnitStepsAndLength ==
    ( /\ pc = "done"
      /\ sync = "apply_dynamic_time_warping"
      /\ Len(audio_signal) >= 1
      /\ Len(subtitle_signal) >= 1 )
    => LET n == Len(audio_signal)
           m == Len(subtitle_signal)
           path == dtw_path.points
       IN  /\ \A k \in 1..(Len(path) - 1) :
                 << path[k + 1][1] - path[k][1], path[k + 1][2] - path[k][2] >>
                    \in { << 1, 0 >>, << 0, 1 >>, << 1, 1 >> }
           /\ IntMax(n, m) <= Len(path)
           /\ Len(path) <= n + m - 1

\* three windows against one: the path of three points climbs by (1, 0) twice
C30_Witness ==
    /\ pc = "done"
    /\ sync = "apply_dynamic_time_warping"
    /\ Len(audio_signal) = 3
    /\ Len(subtitle_signal) = 1
    /\ dtw_path.points = << << 0, 0 >>, << 1, 0 >>, << 2, 0 >> >>
====
